---- MODULE Spec2Model ----
(***************************************************************************)
(* Delegated-authorization pipeline of oauth-agent-flows:                  *)
(*   agent_planner -> agent_tax_optimizer -> agent_calculator, and the     *)
(*   stand-alone tax_api built on shared.KeycloakClient.                   *)
(* Each service handles one request at a time in this model; the identity  *)
(* provider (key-set endpoint, token endpoint) is the environment and its  *)
(* answers are chosen nondeterministically inside the handler's action.    *)
(* Further specifications: the calculator with two requests in flight,     *)
(* user_app's session store with two requests in flight, and the           *)
(* calculator's A2A executor with its event queue.                         *)
(***************************************************************************)
EXTENDS Integers, Sequences, FiniteSets, TLC

\* ---------------------------------------------------------------- bounds
\* Current time of the verifying service; tokens expire around it.
Now == 1
\* Largest number of keys the issuer publishes in one key set.
MaxKeys == 2

\* ------------------------------------------------------------- services
Planner == "agent-planner"
Optimizer == "agent-tax-optimizer"
Calculator == "agent-calculator"
TaxApi == "tax-api"
Services == {Planner, Optimizer, Calculator, TaxApi}

\* f"{KEYCLOAK_URL}/realms/{REALM}"
ExpectedIssuer == "keycloak/realms/ai-agents"
Absent == "-"

\* --------------------------------------------------------- scope strings
\* A scope string is the sequence of its pieces; concatenating the pieces
\* gives the Python string.  " " is the delimiter.
TAX_CALCULATE == <<"tax:calculate">>
TAX_PROCESS == <<"tax:process">>
ScopeStrings ==
    { <<>>,
      <<"tax:calculate">>,
      <<"tax:process">>,
      <<"tax:process", " ", "tax:calculate">>,
      <<"tax:calculate", "-all">>,
      <<"openid">> }

\* Python `needle in hay` on strings: contiguous occurrence.
Contains(needle, hay) ==
    \E i \in 0..(Len(hay) - Len(needle)) :
        SubSeq(hay, i + 1, i + Len(needle)) = needle

\* Python str.split(): the maximal runs of non-blank pieces, each run one word.
RECURSIVE SplitFrom(_, _, _)
SplitFrom(s, i, cur) ==
    IF i > Len(s)
    THEN IF cur = <<>> THEN <<>> ELSE <<cur>>
    ELSE IF s[i] = " "
         THEN IF cur = <<>> THEN SplitFrom(s, i + 1, <<>>)
              ELSE <<cur>> \o SplitFrom(s, i + 1, <<>>)
         ELSE SplitFrom(s, i + 1, Append(cur, s[i]))
Split(s) == SplitFrom(s, 1, <<>>)
Words(s) == {Split(s)[i] : i \in 1..Len(Split(s))}

\* ---------------------------------------------------------------- tokens
\* form   : "jwt" (three parseable segments), "garbled", "none"
\* kid    : key id in the header, Absent when the header has none
\* signer : the key whose private half produced the signature
\* jti    : 0 for tokens presented by outside callers, n for the token minted
\*          by the n-th exchange of a chain
NoToken ==
    [form |-> "none", kid |-> Absent, signer |-> Absent, iss |-> Absent,
     aud |-> Absent, exp |-> 0, hasScope |-> FALSE, scope |-> <<>>, jti |-> 0]
GarbledToken == [NoToken EXCEPT !.form = "garbled"]

KidSigner == { <<"k1", "k1">>, <<"k2", "k2">>, <<"kx", "kx">>, <<Absent, "k1">> }
Audiences == {Calculator, Optimizer, TaxApi, Absent}

\* Header/issuer/expiry combinations: at most one of them deviates from a
\* token the realm issued with key k1, still fresh.
Envelopes ==
    {e \in [ks : KidSigner, iss : {ExpectedIssuer, "other-issuer"},
            exp : {Now - 1, Now, Now + 1}] :
        Cardinality({x \in {1, 2, 3} :
            \/ x = 1 /\ e.ks # <<"k1", "k1">>
            \/ x = 2 /\ e.iss # ExpectedIssuer
            \/ x = 3 /\ e.exp # Now + 1}) <= 1}

JwtTokens ==
    {[form |-> "jwt", kid |-> e.ks[1], signer |-> e.ks[2], iss |-> e.iss,
      aud |-> a, exp |-> e.exp, hasScope |-> sc.has, scope |-> sc.s, jti |-> 0] :
        e \in Envelopes, a \in Audiences,
        sc \in {[has |-> TRUE, s |-> s] : s \in ScopeStrings}
               \cup {[has |-> FALSE, s |-> <<>>]}}
ExternalTokens == JwtTokens \cup {GarbledToken}

\* Tokens outside callers present to the planner: issued to the user
\* application, with the scopes its login requests or only openid.
PlannerTokens ==
    {[form |-> "jwt", kid |-> e.ks[1], signer |-> e.ks[2], iss |-> e.iss,
      aud |-> "user-app", exp |-> e.exp, hasScope |-> TRUE, scope |-> s,
      jti |-> 0] :
        e \in Envelopes,
        s \in {<<"financial:read", " ", "tax:process">>, <<"openid">>}}
      \cup {GarbledToken}

\* ----------------------------------------------------------------- keys
\* A published JWK; the key material is identified with the kid.
NoKey == [kid |-> Absent, use |-> Absent, alg |-> Absent]
Keys ==
    { [kid |-> "k1", use |-> "sig", alg |-> "RS256"],
      [kid |-> "k2", use |-> "sig", alg |-> "RS256"],
      [kid |-> "e1", use |-> "enc", alg |-> "RSA-OAEP"] }
KeySets ==
    {ks \in UNION {[1..n -> Keys] : n \in 0..MaxKeys} :
        \A i, j \in DOMAIN ks : i # j => ks[i] # ks[j]}

\* Answer of GET {issuer}/realms/{realm}/protocol/openid-connect/certs.
NoJwks == [ok |-> FALSE, keys |-> <<>>]
JwksResponses == {[ok |-> TRUE, keys |-> keys] : keys \in KeySets} \cup {NoJwks}

\* ------------------------------------------------------- python-jose
\* jwt.get_unverified_claims / get_unverified_header raise JWTError on a
\* token that does not parse.
Parses(t) == t.form = "jwt"

jwt_decode_any_audience(t, key, audience, issuer) ==
    IF ~Parses(t) THEN "JWTError"
    ELSE IF t.signer # key.kid THEN "JWTError"
    ELSE IF t.exp < Now THEN "JWTError"
    ELSE IF t.iss # issuer THEN "JWTError"
    ELSE "ok"

\* jwt.decode(token, key, algorithms=['RS256'], audience=, issuer=):
\* signature, then exp, aud, iss; every failure is a JWTError.
\* A token without an aud claim passes the audience check.
jwt_decode(t, key, audience, issuer) ==
    IF ~Parses(t) THEN "JWTError"
    ELSE IF t.signer # key.kid THEN "JWTError"
    ELSE IF t.exp < Now THEN "JWTError"
    ELSE IF t.aud # Absent /\ t.aud # audience THEN "JWTError"
    ELSE IF t.iss # issuer THEN "JWTError"
    ELSE "ok"

\* ------------------------------------------------------- exceptions
NoExc == [cls |-> "none", status |-> 0]
Exc(c) == [cls |-> c, status |-> 0]
HTTPException(s) == [cls |-> "HTTPException", status |-> s]

\* ------------------------------------------------------- requests
NoHeader == [present |-> FALSE, scheme |-> Absent, token |-> NoToken]
Bearer(t) == [present |-> TRUE, scheme |-> "Bearer", token |-> t]
Headers ==
    {NoHeader, [present |-> TRUE, scheme |-> "Basic", token |-> GarbledToken]}
        \cup {Bearer(t) : t \in ExternalTokens}

OpenPaths == {"/docs", "/openapi.json", "/favicon.ico"}
AgentCardPath == "/a2a/.well-known/agent.json"
A2APaths == {AgentCardPath, "/a2a/"}
CalculatorPaths == OpenPaths \cup A2APaths \cup {"/api/calculate"}
\* request.url.path.startswith("/a2a")
StartsWithA2A(path) == path \in A2APaths

\* Token-exchange form data and the provider's answer.
NoXReq ==
    [grant_type |-> Absent, subject_token |-> NoToken, audience |-> Absent,
     scope |-> <<>>, client_id |-> Absent, client_secret |-> Absent]
NoXRes == [kind |-> "none", status |-> 0, hasTok |-> FALSE, token |-> NoToken]

\* CLIENT_ID / CLIENT_SECRET of a service (environment configuration).
CLIENT_ID(s) == s
CLIENT_SECRET(s) == IF s = Planner THEN "planner-secret" ELSE "optimizer-secret"

\* The state of one service's current request.
\*   from    : "client" or the calling service
\*   vout    : status verification ended with (0: verification not run)
\*   verr    : class of the exception raised while verifying ("none": none)
\*   jwks    : what the key-set endpoint answered to this request
\*   claims  : what verification returned (request.state.user_token)
\*   xreq/xres : exchange request sent and the provider's answer
\*   sent    : bearer token put on the downstream call
\*   raised  : the response is an HTTPException raised, not a Response returned
\*   www     : the response carries a WWW-Authenticate header
\*   ran     : the route handler behind the middleware ran
\*   detail  : the text the handler itself puts in front of the error detail
\*             (calculator only)
\*   btokens : the complete bearer tokens contained in the response body
\*   bsecrets: the client secrets contained in the response body
\*   meta    : the exchange requests the response body reports
Idle ==
    [pc |-> "idle", from |-> Absent, path |-> Absent, hdr |-> NoHeader,
     vout |-> 0, verr |-> "none", jwks |-> NoJwks, claims |-> NoToken,
     xreq |-> NoXReq, xres |-> NoXRes, sent |-> NoToken, dstatus |-> 0,
     status |-> 0, raised |-> FALSE, www |-> FALSE, ran |-> FALSE,
     body |-> Absent, nFetch |-> 0, nExch |-> 0, nCall |-> 0,
     detail |-> Absent, btokens |-> {}, bsecrets |-> {}, meta |-> {}]

\* Module-level configuration of each service, read from the environment
\* when the module is imported.
Configuration ==
    [s \in Services |->
        [KEYCLOAK_URL |-> "keycloak", REALM |-> "ai-agents",
         CLIENT_ID |-> CLIENT_ID(s), CLIENT_SECRET |-> CLIENT_SECRET(s),
         NEXT_URL |-> IF s = Planner THEN Optimizer
                      ELSE IF s = Optimizer THEN Calculator ELSE Absent]]

\* TaxCalculator.tax_data of the calculator's one TaxCalculator instance
\* (rates in percent).
TaxData ==
    [federal_tax_rate |-> 22, state_tax_rate |-> 5, effective_tax_rate |-> 27,
     standard_deduction |-> 12950, child_tax_credit |-> 2000]

\* One of the calculator's requests when several are in flight.
\*   handled    : an exception handler renders what the middleware raises
\*   user_token : request.state.user_token
\*   seen       : the claims the route handler read
IdleSlot ==
    [pc |-> "idle", path |-> Absent, hdr |-> NoHeader, handled |-> FALSE,
     jwks |-> NoJwks, vout |-> 0, user_token |-> NoToken, seen |-> NoToken,
     status |-> 0, www |-> FALSE, ran |-> FALSE, body |-> Absent]
Slots == {1, 2}

\* ------------------------------------------------------ user_app, state
\* Sessions callback creates in one run.
MaxSessions == 2
\* datetime.now() of user_app runs from 0 to MaxClock.
MaxClock == 3
\* Distinct token sets the provider hands out to user_app.
MaxTokens == 2

Calls == {1, 2}

\* A key missing from a JSON answer; the request without session cookie.
NoValue == 0
NoCookie == 0
\* A cookie value that is no session id the application ever generated.
UnknownCookie == MaxSessions + 1

\* sessions = {}
NoSessions == [i \in {} |-> 0]

\* Answer of the provider's token endpoint to user_app (authorization code
\* or refresh_token grant).  jwt: the access_token parses as a JWT with iss.
NoAnswer ==
    [kind |-> "none", status |-> 0, access_token |-> NoValue,
     refresh_token |-> NoValue, expires_in |-> NoValue, jwt |-> FALSE]

\* A request to user_app that has not arrived.
\*   user   : session["user_info"] of the session object the call holds
\*   answer : the token endpoint's answer to the call's refresh request
\*   exc    : the exception that left the handler
IdleCall ==
    [pc |-> "idle", op |-> Absent, sid |-> NoCookie, user |-> Absent,
     status |-> 0, body |-> Absent, access_token |-> NoValue,
     answer |-> NoAnswer, exc |-> "none"]

\* ------------------------------------- TaxCalculatorAgentExecutor, state
\* Messages the event queue holds at most.
MaxQueue == 3

\* No call of the executor is running.
\*   message   : the Message the call is about to enqueue
\*   enqueued  : messages this call has put on the queue
\*   exc       : the exception that left execute
\*   cancelled : what the last cancel returned
NoMessage == [role |-> Absent, text |-> <<>>]
IdleExec ==
    [pc |-> "idle", user_input |-> Absent, token_context |-> NoToken,
     message |-> NoMessage, enqueued |-> 0, exc |-> "none",
     cancelled |-> Absent]

\* req      : the current request of each service (one at a time)
\* slots    : the calculator's requests when handled concurrently
\* config   : the services' module-level configuration
\* tax_data : the calculator's shared TaxCalculator.tax_data
\* sessions : user_app's in-memory session store, session id -> session
\* calls    : user_app's requests in flight
\* clock    : datetime.now() of user_app
\* issued   : number of session ids os.urandom has produced
\* exec     : the current call of TaxCalculatorAgentExecutor
\* event_queue : the EventQueue the executor writes to
VARIABLES req, slots, config, tax_data,
          sessions, calls, clock, issued, exec, event_queue
pipeline_vars == <<req, slots, config, tax_data>>
app_vars == <<sessions, calls, clock, issued>>
exec_vars == <<exec, event_queue>>
vars == <<req, slots, config, tax_data,
          sessions, calls, clock, issued, exec, event_queue>>

Init ==
    /\ req = [s \in Services |-> Idle]
    /\ slots = [i \in Slots |-> IdleSlot]
    /\ config = Configuration
    /\ tax_data = TaxData
    /\ sessions = NoSessions
    /\ calls = [c \in Calls |-> IdleCall]
    /\ clock = 0
    /\ issued = 0
    /\ exec = IdleExec
    /\ event_queue = <<>>

AllIdle == \A s \in Services : req[s] = Idle
Quiet == \A s \in Services : req[s].pc \in {"idle", "done"}

\* An outside caller sends a request to service s.  The planner's and the
\* optimizer's routes take their credentials from HTTPBearer, so their
\* handlers only ever run with a Bearer header.
Receive(s, path, hdr) ==
    req' = [x \in Services |->
              IF x = s
              THEN [Idle EXCEPT !.pc = "received", !.from = "client",
                                !.path = path, !.hdr = hdr]
              ELSE Idle]

ClientRequest ==
    /\ UNCHANGED <<slots, config, tax_data, app_vars, exec_vars>>
    /\ AllIdle
    /\ \/ \E path \in CalculatorPaths, hdr \in Headers :
             Receive(Calculator, path, hdr)
       \/ \E hdr \in Headers : Receive(TaxApi, "/api/calculate-tax", hdr)
       \/ \E t \in ExternalTokens : Receive(Optimizer, "/optimize", Bearer(t))
       \/ \E t \in PlannerTokens : Receive(Planner, "/generate-plan", Bearer(t))

\* ------------------------------------------------------- agent_calculator
Min(S) == CHOOSE x \in S : \A y \in S : x <= y

\* get_public_key taking the first published key whatever its use.
get_public_key_any_use(resp) ==
    IF ~resp.ok THEN [exc |-> Exc("HTTPError"), key |-> NoKey]
    ELSE IF Len(resp.keys) = 0 THEN [exc |-> Exc("Exception"), key |-> NoKey]
    ELSE [exc |-> NoExc, key |-> resp.keys[1]]

\* get_public_key: the first key with use=sig and alg=RS256 of the fetched
\* key set; a failed fetch and a key set without such a key both raise.
get_public_key(resp) ==
    IF ~resp.ok THEN [exc |-> Exc("HTTPError"), key |-> NoKey]
    ELSE LET idx == {i \in 1..Len(resp.keys) :
                        resp.keys[i].use = "sig" /\ resp.keys[i].alg = "RS256"}
         IN  IF idx = {} THEN [exc |-> Exc("Exception"), key |-> NoKey]
             ELSE [exc |-> NoExc, key |-> resp.keys[Min(idx)]]

\* verify_token demanding that the scope claim is exactly the required scope.
verify_token_try_exact_scope(t, resp) ==
    LET pk == get_public_key(resp) IN
    IF pk.exc # NoExc THEN pk.exc
    ELSE IF jwt_decode(t, pk.key, CLIENT_ID(Calculator), ExpectedIssuer) # "ok"
         THEN Exc("JWTError")
    ELSE IF ~t.hasScope \/ t.scope # TAX_CALCULATE
         THEN HTTPException(403)
    ELSE NoExc

\* What the body of verify_token's try block raises (NoExc: it returns).
verify_token_try(t, resp) ==
    LET pk == get_public_key(resp) IN
    IF pk.exc # NoExc THEN pk.exc
    ELSE IF jwt_decode(t, pk.key, CLIENT_ID(Calculator), ExpectedIssuer) # "ok"
         THEN Exc("JWTError")
    ELSE IF ~t.hasScope \/ ~Contains(TAX_CALCULATE, t.scope)
         THEN HTTPException(403)
    ELSE NoExc

\* verify_token without its `except JWTError` clause.
verify_token_all_500(t, resp) ==
    LET e == verify_token_try(t, resp) IN
    IF e = NoExc
    THEN [status |-> 200, claims |-> t, exc |-> e, detail |-> Absent]
    ELSE [status |-> 500, claims |-> NoToken, exc |-> e,
          detail |-> "Error verifying token: "]

\* verify_token: `except JWTError` -> 401, `except Exception` -> 500.
verify_token(t, resp) ==
    LET e == verify_token_try(t, resp) IN
    IF e = NoExc
    THEN [status |-> 200, claims |-> t, exc |-> e, detail |-> Absent]
    ELSE IF e.cls = "JWTError"
    THEN [status |-> 401, claims |-> NoToken, exc |-> e,
          detail |-> "Invalid token: "]
    ELSE [status |-> 500, claims |-> NoToken, exc |-> e,
          detail |-> "Error verifying token: "]

\* The route handler of POST /api/calculate: request.state.user_token, then
\* TaxCalculator.calculate_tax; any exception leaves as 500.
api_calculate(user_token) ==
    IF user_token = NoToken
    THEN [status |-> 500, body |-> "error"]
    ELSE [status |-> 200, body |-> "tax_result"]

\* The handler mounted under /a2a: the agent card, or the JSON-RPC answer
\* carrying the message TaxCalculatorAgentExecutor.execute built from
\* calculation_result['tax_result'].
a2a_route(path) ==
    IF path = AgentCardPath
    THEN [status |-> 200, body |-> "agent_card"]
    ELSE [status |-> 200, body |-> "a2a"]

\* The middleware without the exemption of the agent card.
auth_middleware_result_card_protected(r, resp) ==
    LET a2a == StartsWithA2A(r.path)
        v == verify_token(r.hdr.token, resp)
        h == IF a2a THEN a2a_route(r.path) ELSE api_calculate(v.claims)
    IN
    IF r.path \in OpenPaths
    THEN [r EXCEPT !.pc = "done", !.ran = TRUE, !.status = 200, !.body = "public"]
    ELSE IF ~r.hdr.present
    THEN [r EXCEPT !.pc = "done", !.status = 401, !.www = TRUE,
                   !.raised = ~a2a, !.body = "error",
                   !.detail = IF a2a THEN "Missing Authorization header"
                              ELSE "Authorization header required"]
    ELSE IF r.hdr.scheme # "Bearer"
    THEN [r EXCEPT !.pc = "done", !.status = 401, !.www = TRUE,
                   !.raised = ~a2a, !.body = "error",
                   !.detail = IF a2a THEN "Invalid Authorization header format"
                              ELSE "Bearer token required"]
    ELSE IF v.status = 200
    THEN [r EXCEPT !.pc = "done", !.vout = 200, !.jwks = resp, !.nFetch = @ + 1,
                   !.claims = v.claims, !.ran = TRUE, !.status = h.status,
                   !.raised = (h.status # 200), !.body = h.body]
    ELSE [r EXCEPT !.pc = "done", !.vout = v.status, !.verr = v.exc.cls,
                   !.jwks = resp,
                   !.nFetch = @ + 1, !.status = v.status, !.www = a2a,
                   !.raised = ~a2a, !.body = "error", !.detail = v.detail]

\* The whole middleware including the route handler behind call_next.
auth_middleware_result(r, resp) ==
    LET a2a == StartsWithA2A(r.path)
        v == verify_token(r.hdr.token, resp)
        h == IF a2a THEN a2a_route(r.path) ELSE api_calculate(v.claims)
    IN
    IF r.path \in OpenPaths
    THEN [r EXCEPT !.pc = "done", !.ran = TRUE, !.status = 200, !.body = "public"]
    ELSE IF r.path = AgentCardPath
    THEN [r EXCEPT !.pc = "done", !.ran = TRUE,
                   !.status = a2a_route(r.path).status,
                   !.body = a2a_route(r.path).body]
    ELSE IF ~r.hdr.present
    THEN [r EXCEPT !.pc = "done", !.status = 401, !.www = TRUE,
                   !.raised = ~a2a, !.body = "error",
                   !.detail = IF a2a THEN "Missing Authorization header"
                              ELSE "Authorization header required"]
    ELSE IF r.hdr.scheme # "Bearer"
    THEN [r EXCEPT !.pc = "done", !.status = 401, !.www = TRUE,
                   !.raised = ~a2a, !.body = "error",
                   !.detail = IF a2a THEN "Invalid Authorization header format"
                              ELSE "Bearer token required"]
    ELSE IF v.status = 200
    THEN [r EXCEPT !.pc = "done", !.vout = 200, !.jwks = resp, !.nFetch = @ + 1,
                   !.claims = v.claims, !.ran = TRUE, !.status = h.status,
                   !.raised = (h.status # 200), !.body = h.body]
    ELSE [r EXCEPT !.pc = "done", !.vout = v.status, !.verr = v.exc.cls,
                   !.jwks = resp,
                   !.nFetch = @ + 1, !.status = v.status, !.www = a2a,
                   !.raised = ~a2a, !.body = "error", !.detail = v.detail]

\* What the client receives.  A Response the middleware returns is sent as
\* it is.  An HTTPException that leaves the middleware function is outside
\* the route's exception handling: the client gets the exception's status
\* where a handler renders it, and a bare 500 otherwise.
render(x, handled) ==
    IF x.raised /\ ~x.ran /\ ~handled
    THEN [x EXCEPT !.status = 500, !.www = FALSE,
                   !.detail = "Internal Server Error"]
    ELSE x

\* TaxCalculator.calculate_tax personalising the shared table.
TaxCalculator_calculate_tax_in_place(td, context) ==
    [result |-> [message |-> "Tax calculations completed",
                 tax_result |-> [td EXCEPT !.child_tax_credit = 0]],
     tax_data |-> [td EXCEPT !.child_tax_credit = 0]]

\* TaxCalculator.calculate_tax: the result holds a copy of tax_data, the
\* instance's tax_data is left as it was.
TaxCalculator_calculate_tax(td, context) ==
    [result |-> [message |-> "Tax calculations completed", tax_result |-> td],
     tax_data |-> td]

\* tax_data after the route behind the middleware ran for the response x.
tax_data_after(td, x) ==
    IF x.ran /\ x.body \in {"tax_result", "a2a"}
    THEN TaxCalculator_calculate_tax(td, x.claims).tax_data
    ELSE td

auth_middleware ==
    /\ req[Calculator].pc = "received"
    /\ \E resp \in JwksResponses, handled \in BOOLEAN :
          LET x == render(auth_middleware_result(req[Calculator], resp), handled)
          IN  /\ req' = [req EXCEPT ![Calculator] = x]
              /\ tax_data' = tax_data_after(tax_data, x)
    /\ UNCHANGED <<slots, config, app_vars, exec_vars>>

\* ------------------------------------------------------- shared + tax_api
\* KeycloakClient.validate_token: the exception it raises (NoExc: returns).
\* A JWTError leaves as ValueError("Invalid token: ..."), a failed fetch as
\* ValueError("Error fetching JWKS: ..."), an unknown kid as
\* ValueError("Public key not found").
validate_token(t, resp) ==
    IF ~resp.ok THEN Exc("ValueError: Error fetching JWKS")
    ELSE IF ~Parses(t) THEN Exc("ValueError: Invalid token")
    ELSE IF t.kid = Absent THEN Exc("KeyError")
    ELSE LET idx == {i \in 1..Len(resp.keys) : resp.keys[i].kid = t.kid} IN
         IF idx = {} THEN Exc("ValueError: Public key not found")
         ELSE IF jwt_decode(t, resp.keys[Min(idx)], CLIENT_ID(TaxApi),
                            ExpectedIssuer) # "ok"
              THEN Exc("ValueError: Invalid token")
         ELSE NoExc

\* tax_api.calculate_tax: what its try block raises.
calculate_tax_try(t, resp) ==
    LET e == validate_token(t, resp) IN
    IF e # NoExc THEN e
    ELSE IF TAX_CALCULATE \notin Words(IF t.hasScope THEN t.scope ELSE <<>>)
         THEN HTTPException(403)
    ELSE NoExc

calculate_tax_result(r, resp) ==
    IF ~r.hdr.present \/ r.hdr.scheme # "Bearer"
    THEN [r EXCEPT !.pc = "done", !.status = 401, !.raised = TRUE, !.body = "error"]
    ELSE LET e == calculate_tax_try(r.hdr.token, resp) IN
         IF e = NoExc
         THEN [r EXCEPT !.pc = "done", !.vout = 200, !.jwks = resp,
                        !.nFetch = @ + 1, !.claims = r.hdr.token, !.ran = TRUE,
                        !.status = 200, !.body = "calculated_tax"]
         ELSE [r EXCEPT !.pc = "done", !.vout = 500, !.verr = e.cls,
                        !.jwks = resp,
                        !.nFetch = @ + 1, !.status = 500, !.raised = TRUE,
                        !.body = "error"]

calculate_tax ==
    /\ UNCHANGED <<slots, config, tax_data, app_vars, exec_vars>>
    /\ req[TaxApi].pc = "received"
    /\ \E resp \in JwksResponses :
          req' = [req EXCEPT ![TaxApi] = calculate_tax_result(@, resp)]

\* ------------------------------------------------------- identity provider
GRANT_TYPE == "urn:ietf:params:oauth:grant-type:token-exchange"

\* Tokens the provider may mint for an exchange request: signed with the
\* realm key k1, for the requested audience or the default one, with the
\* requested scope or none.
Mint(xreq) ==
    {[form |-> "jwt", kid |-> "k1", signer |-> "k1", iss |-> ExpectedIssuer,
      aud |-> a, exp |-> Now + 1, hasScope |-> TRUE, scope |-> sc,
      jti |-> xreq.subject_token.jti + 1] :
        a \in {xreq.audience, "account"}, sc \in {xreq.scope, <<>>}}

\* Answers of POST {issuer}/realms/{realm}/protocol/openid-connect/token:
\* no answer at all, an error status, 200 with or without an access_token.
ExchangeAnswers(xreq) ==
    {[NoXRes EXCEPT !.kind = "network"]}
        \cup {[NoXRes EXCEPT !.kind = "http", !.status = st] :
                 st \in {200, 201, 400, 500}}
        \cup {[kind |-> "http", status |-> 200, hasTok |-> TRUE, token |-> t] :
                 t \in Mint(xreq)}

\* response.raise_for_status()
IsErrorStatus(st) == st >= 400

\* ------------------------------------------------------- agent_tax_optimizer
opt_get_public_key(resp) ==
    IF ~resp.ok THEN [exc |-> Exc("HTTPError"), key |-> NoKey]
    ELSE LET idx == {i \in 1..Len(resp.keys) :
                        resp.keys[i].use = "sig" /\ resp.keys[i].alg = "RS256"}
         IN  IF idx = {} THEN [exc |-> Exc("Exception"), key |-> NoKey]
             ELSE [exc |-> NoExc, key |-> resp.keys[Min(idx)]]

\* The optimizer's verify_token checking the scope before the signature.
opt_verify_token_try_scope_first(t, resp) ==
    LET pk == opt_get_public_key(resp) IN
    IF pk.exc # NoExc THEN pk.exc
    ELSE IF ~Parses(t) THEN Exc("UnboundLocalError")
    ELSE IF ~t.hasScope \/ ~Contains(TAX_PROCESS, t.scope)
         THEN HTTPException(403)
    ELSE IF jwt_decode(t, pk.key, CLIENT_ID(Optimizer), ExpectedIssuer) # "ok"
         THEN Exc("JWTError")
    ELSE NoExc

\* Body of the optimizer's verify_token; unverified_token is unbound at the
\* issuer log line when the token did not parse.
opt_verify_token_try(t, resp) ==
    LET pk == opt_get_public_key(resp) IN
    IF pk.exc # NoExc THEN pk.exc
    ELSE IF ~Parses(t) THEN Exc("UnboundLocalError")
    ELSE IF jwt_decode(t, pk.key, CLIENT_ID(Optimizer), ExpectedIssuer) # "ok"
         THEN Exc("JWTError")
    ELSE IF ~t.hasScope \/ ~Contains(TAX_PROCESS, t.scope)
         THEN HTTPException(403)
    ELSE NoExc

opt_verify_token(t, resp) ==
    LET e == opt_verify_token_try(t, resp) IN
    IF e = NoExc THEN [status |-> 200, claims |-> t, exc |-> e]
    ELSE IF e.cls = "JWTError" THEN [status |-> 401, claims |-> NoToken, exc |-> e]
    ELSE [status |-> 500, claims |-> NoToken, exc |-> e]

\* Form data of exchange_token_for_calculator.
opt_exchange_request(subject_token) ==
    [grant_type |-> GRANT_TYPE, subject_token |-> subject_token,
     audience |-> "agent-calculator", scope |-> TAX_CALCULATE,
     client_id |-> CLIENT_ID(Optimizer), client_secret |-> CLIENT_SECRET(Optimizer)]

\* exchange_token_for_calculator: the exception it leaves with (NoExc: it
\* returns the provider's JSON).  The HTTPException raised for a non-200
\* status is caught by the function's own `except Exception`.
exchange_token_for_calculator(ans) ==
    LET inner == IF ans.kind = "network" THEN Exc("httpx.HTTPError")
                 ELSE IF ans.status # 200 THEN HTTPException(ans.status)
                 ELSE NoExc
    IN  IF inner = NoExc THEN NoExc ELSE HTTPException(500)

opt_exchange_attempts_retry(ans) ==
    IF ans.kind = "network" \/ ans.status # 200 THEN 2 ELSE 1

\* Number of POSTs exchange_token_for_calculator issues for one call.
opt_exchange_attempts(ans) == 1

opt_downstream_bearer_forward(inbound, xres) == inbound

\* Bearer credential of the call to the calculator.
opt_downstream_bearer(inbound, xres) == xres.token

\* optimize_tax up to the point where the calculator has been called.
\* delivered: the POST reached the calculator (otherwise httpx.HTTPError).
optimize_tax_start(r, resp, ans, delivered) ==
    LET t == r.hdr.token
        v == opt_verify_token(t, resp)
        r1 == [r EXCEPT !.vout = v.status, !.verr = v.exc.cls, !.jwks = resp,
                        !.nFetch = @ + 1, !.claims = v.claims]
        fail(x) == [x EXCEPT !.pc = "done", !.status = 500, !.raised = TRUE,
                             !.body = "error"]
        xq == opt_exchange_request(t)
        r2 == [r1 EXCEPT !.xreq = xq, !.xres = ans,
                         !.nExch = @ + opt_exchange_attempts(ans)]
    IN
    IF v.status # 200 THEN fail(r1)
    ELSE IF exchange_token_for_calculator(ans) # NoExc THEN fail(r2)
    ELSE IF ~ans.hasTok THEN fail(r2)
    ELSE LET r3 == [r2 EXCEPT !.sent = opt_downstream_bearer(t, ans), !.nCall = @ + 1]
         IN  IF delivered THEN [r3 EXCEPT !.pc = "calling"] ELSE fail(r3)

optimize_tax ==
    /\ UNCHANGED <<slots, config, tax_data, app_vars, exec_vars>>
    /\ req[Optimizer].pc = "received"
    /\ \E resp \in JwksResponses :
       \E ans \in ExchangeAnswers(opt_exchange_request(req[Optimizer].hdr.token)) :
       \E delivered \in BOOLEAN :
          LET r == optimize_tax_start(req[Optimizer], resp, ans, delivered) IN
          req' = [req EXCEPT
                    ![Optimizer] = r,
                    ![Calculator] =
                        IF r.pc = "calling"
                        THEN [Idle EXCEPT !.pc = "received", !.from = Optimizer,
                                          !.path = "/api/calculate",
                                          !.hdr = Bearer(r.sent)]
                        ELSE @]

\* The "token_exchange"/"request" entry of the optimizer's response.
opt_reported_exchange ==
    [by |-> Optimizer, hop |-> Optimizer,
     audience |-> "agent-calculator", scope |-> TAX_CALCULATE]

\* optimize_tax swallowing the calculator's error status.
optimize_tax_finish_partial(r, dstatus) ==
    IF ~Parses(r.xres.token)
    THEN [r EXCEPT !.pc = "done", !.dstatus = dstatus, !.status = 500,
                   !.raised = TRUE, !.body = "error"]
    ELSE [r EXCEPT !.pc = "done", !.dstatus = dstatus, !.status = 200,
                   !.ran = TRUE, !.body = "optimization_result",
                   !.btokens = {r.xres.token},
                   !.meta = {opt_reported_exchange}]

\* optimize_tax after the calculator answered.  The success body carries
\* "token_exchange"/"response": calculator_token_response, the provider's
\* whole answer with its access_token.
optimize_tax_finish(r, dstatus) ==
    IF IsErrorStatus(dstatus)
    THEN [r EXCEPT !.pc = "done", !.dstatus = dstatus, !.status = 500,
                   !.raised = TRUE, !.body = "error"]
    ELSE IF ~Parses(r.xres.token)
    THEN [r EXCEPT !.pc = "done", !.dstatus = dstatus, !.status = 500,
                   !.raised = TRUE, !.body = "error"]
    ELSE [r EXCEPT !.pc = "done", !.dstatus = dstatus, !.status = 200,
                   !.ran = TRUE, !.body = "optimization_result",
                   !.btokens = {r.xres.token},
                   !.meta = {opt_reported_exchange}]

optimize_tax_resume ==
    /\ UNCHANGED <<slots, config, tax_data, app_vars, exec_vars>>
    /\ req[Optimizer].pc = "calling"
    /\ req[Calculator].pc = "done"
    /\ req[Calculator].from = Optimizer
    /\ req' = [req EXCEPT ![Optimizer] =
                    optimize_tax_finish(@, req[Calculator].status)]

\* ------------------------------------------------------- agent_planner
\* exchange_token asking for the scope of the token it was given.
exchange_request_inbound_scope(subject_token) ==
    [grant_type |-> GRANT_TYPE, subject_token |-> subject_token,
     audience |-> "agent-tax-optimizer", scope |-> subject_token.scope,
     client_id |-> CLIENT_ID(Planner), client_secret |-> CLIENT_SECRET(Planner)]

\* Form data of exchange_token.
exchange_request(subject_token) ==
    [grant_type |-> GRANT_TYPE, subject_token |-> subject_token,
     audience |-> "agent-tax-optimizer", scope |-> TAX_PROCESS,
     client_id |-> CLIENT_ID(Planner), client_secret |-> CLIENT_SECRET(Planner)]

\* exchange_token handing the provider's status on to its caller.
exchange_token_passthrough(ans) ==
    IF ans.kind = "network" THEN HTTPException(500)
    ELSE IF ans.status # 200 THEN HTTPException(ans.status)
    ELSE NoExc

\* exchange_token: the exception it leaves with (NoExc: it returns).
exchange_token(ans) ==
    LET inner == IF ans.kind = "network" THEN Exc("httpx.HTTPError")
                 ELSE IF ans.status # 200 THEN HTTPException(ans.status)
                 ELSE NoExc
    IN  IF inner = NoExc THEN NoExc ELSE HTTPException(500)

\* Number of POSTs exchange_token issues for one call.
exchange_attempts(ans) == 1

\* Bearer credential of the call to the optimizer.
downstream_bearer(inbound, xres) == xres.token

\* The planner's check of the inbound token before it exchanges it:
\* jwt.get_unverified_claims only.
planner_token_check(t) == IF Parses(t) THEN NoExc ELSE HTTPException(401)

\* generate_plan falling back to the inbound token when the exchange fails.
generate_plan_start_fallback(r, ans, delivered) ==
    LET t == r.hdr.token
        fail(x) == [x EXCEPT !.pc = "done", !.status = 500, !.raised = TRUE,
                             !.body = "error"]
        xq == exchange_request(t)
        r2 == [r EXCEPT !.xreq = xq, !.xres = ans, !.nExch = @ + exchange_attempts(ans)]
        bearer == IF exchange_token(ans) # NoExc \/ ~ans.hasTok THEN t ELSE ans.token
        r3 == [r2 EXCEPT !.sent = bearer, !.nCall = @ + 1]
    IN
    IF planner_token_check(t) # NoExc THEN fail(r)
    ELSE IF delivered THEN [r3 EXCEPT !.pc = "calling"] ELSE fail(r3)

\* generate_plan up to the point where the optimizer has been called.
generate_plan_start(r, ans, delivered) ==
    LET t == r.hdr.token
        fail(x) == [x EXCEPT !.pc = "done", !.status = 500, !.raised = TRUE,
                             !.body = "error"]
        xq == exchange_request(t)
        r2 == [r EXCEPT !.xreq = xq, !.xres = ans, !.nExch = @ + exchange_attempts(ans)]
    IN
    IF planner_token_check(t) # NoExc THEN fail(r)
    ELSE IF exchange_token(ans) # NoExc THEN fail(r2)
    ELSE IF ~ans.hasTok THEN fail(r2)
    ELSE LET r3 == [r2 EXCEPT !.sent = downstream_bearer(t, ans), !.nCall = @ + 1]
         IN  IF delivered THEN [r3 EXCEPT !.pc = "calling"] ELSE fail(r3)

generate_plan ==
    /\ UNCHANGED <<slots, config, tax_data, app_vars, exec_vars>>
    /\ req[Planner].pc = "received"
    /\ \E ans \in ExchangeAnswers(exchange_request(req[Planner].hdr.token)) :
       \E delivered \in BOOLEAN :
          LET r == generate_plan_start(req[Planner], ans, delivered) IN
          req' = [req EXCEPT
                    ![Planner] = r,
                    ![Optimizer] =
                        IF r.pc = "calling"
                        THEN [Idle EXCEPT !.pc = "received", !.from = Planner,
                                          !.path = "/optimize",
                                          !.hdr = Bearer(r.sent)]
                        ELSE @]

\* The two "token_exchange"/"request" entries generate_plan writes into its
\* response: its own exchange, and the one it reports for the optimizer.
reported_exchanges ==
    { [by |-> Planner, hop |-> Planner,
       audience |-> "agent-tax-optimizer", scope |-> TAX_PROCESS],
      [by |-> Planner, hop |-> Optimizer,
       audience |-> "agent-calculator", scope |-> <<"calculator:process">>] }

\* generate_plan keeping the request pending when the optimizer answered
\* with an error, waiting for another answer.
generate_plan_finish_wait(r, d) ==
    IF IsErrorStatus(d.status)
    THEN r
    ELSE IF ~Parses(r.xres.token)
    THEN [r EXCEPT !.pc = "done", !.dstatus = d.status, !.status = 500,
                   !.raised = TRUE, !.body = "error"]
    ELSE [r EXCEPT !.pc = "done", !.dstatus = d.status, !.status = 200,
                   !.ran = TRUE, !.body = "plan",
                   !.btokens = {r.xres.token} \cup d.btokens,
                   !.meta = reported_exchanges \cup d.meta]

\* generate_plan after the optimizer answered with the response d.  The
\* success body carries token_exchange_response whole and, under
\* "agent_tax_optimizer"/"response", the optimizer's whole response.
generate_plan_finish(r, d) ==
    IF IsErrorStatus(d.status)
    THEN [r EXCEPT !.pc = "done", !.dstatus = d.status, !.status = 500,
                   !.raised = TRUE, !.body = "error"]
    ELSE IF ~Parses(r.xres.token)
    THEN [r EXCEPT !.pc = "done", !.dstatus = d.status, !.status = 500,
                   !.raised = TRUE, !.body = "error"]
    ELSE [r EXCEPT !.pc = "done", !.dstatus = d.status, !.status = 200,
                   !.ran = TRUE, !.body = "plan",
                   !.btokens = {r.xres.token} \cup d.btokens,
                   !.meta = reported_exchanges \cup d.meta]

generate_plan_resume ==
    /\ UNCHANGED <<slots, config, tax_data, app_vars, exec_vars>>
    /\ req[Planner].pc = "calling"
    /\ req[Optimizer].pc = "done"
    /\ req[Optimizer].from = Planner
    /\ req' = [req EXCEPT ![Planner] =
                    generate_plan_finish(@, req[Optimizer])]

\* Every response has been delivered; the request-local state is dropped.
Forget ==
    /\ UNCHANGED <<slots, config, tax_data, app_vars, exec_vars>>
    /\ Quiet
    /\ ~AllIdle
    /\ req' = [s \in Services |-> Idle]

Next ==
    \/ ClientRequest
    \/ auth_middleware
    \/ calculate_tax
    \/ optimize_tax
    \/ optimize_tax_resume
    \/ generate_plan
    \/ generate_plan_resume
    \/ Forget

Spec == Init /\ [][Next]_vars

\* The same steps with the handlers scheduled: a handler that can continue
\* does continue, every remote call it awaits returning or failing.  No
\* assumption is made on clients sending requests.
LiveSpec ==
    /\ Init /\ [][Next]_vars
    /\ WF_vars(auth_middleware)
    /\ WF_vars(calculate_tax)
    /\ WF_vars(optimize_tax)
    /\ WF_vars(optimize_tax_resume)
    /\ WF_vars(generate_plan)
    /\ WF_vars(generate_plan_resume)

\* ------------------------------------------- agent_calculator, concurrent
\* Two requests in flight at the calculator.  A request is suspended where
\* the code awaits: the key-set GET inside verify_token, and call_next.
ConcTokens ==
    { [form |-> "jwt", kid |-> "k1", signer |-> "k1", iss |-> ExpectedIssuer,
       aud |-> Calculator, exp |-> Now + 1, hasScope |-> TRUE, scope |-> sc,
       jti |-> 0] :
         sc \in {TAX_CALCULATE, <<"tax:process", " ", "tax:calculate">>, <<>>} }
      \cup {GarbledToken}
ConcHeaders == {NoHeader} \cup {Bearer(t) : t \in ConcTokens}
ConcPaths == {"/api/calculate", "/a2a/", AgentCardPath}
ConcJwks ==
    { NoJwks,
      [ok |-> TRUE, keys |-> <<[kid |-> "k1", use |-> "sig", alg |-> "RS256"]>>],
      [ok |-> TRUE, keys |-> <<[kid |-> "k2", use |-> "sig", alg |-> "RS256"]>>] }

Other(i) == 3 - i

\* A request arrives while the other one is in any state.
conc_receive(i) ==
    /\ slots[i].pc = "idle"
    /\ \E path \in ConcPaths, hdr \in ConcHeaders, handled \in BOOLEAN :
          slots' = [slots EXCEPT ![i] =
                      [IdleSlot EXCEPT !.pc = "received", !.path = path,
                                       !.hdr = hdr, !.handled = handled]]
    /\ UNCHANGED <<req, config, tax_data, app_vars, exec_vars>>

\* The request as the one-at-a-time middleware sees it.
AsRequest(sl) ==
    [Idle EXCEPT !.pc = "received", !.from = "client", !.path = sl.path,
                 !.hdr = sl.hdr]

\* The answer of the request of slot sl handled alone, the key-set endpoint
\* answering sl.jwks.
Alone(sl) == render(auth_middleware_result(AsRequest(sl), sl.jwks), sl.handled)

\* auth_middleware up to its first await: public paths go to call_next, a
\* missing or non-Bearer header is answered, anything else starts
\* verify_token, which sends the key-set GET.
conc_auth_middleware(i) ==
    /\ slots[i].pc = "received"
    /\ LET sl == slots[i] IN
       slots' = [slots EXCEPT ![i] =
          IF sl.path \in OpenPaths \/ sl.path = AgentCardPath
          THEN [sl EXCEPT !.pc = "call_next"]
          ELSE IF ~sl.hdr.present \/ sl.hdr.scheme # "Bearer"
          THEN [sl EXCEPT !.pc = "done", !.status = Alone(sl).status,
                          !.www = Alone(sl).www, !.body = Alone(sl).body]
          ELSE [sl EXCEPT !.pc = "fetching"]]
    /\ UNCHANGED <<req, config, tax_data, app_vars, exec_vars>>

\* verify_token of slot i rejecting a token the other request has presented
\* and had accepted.
conc_verify_token_once(sl, i, resp) ==
    IF /\ sl[Other(i)].vout = 200
       /\ sl[Other(i)].hdr.token = sl[i].hdr.token
    THEN [status |-> 401, claims |-> NoToken, exc |-> Exc("JWTError"),
          detail |-> "Invalid token: "]
    ELSE verify_token(sl[i].hdr.token, resp)

\* verify_token of slot i: its arguments and locals only.
conc_verify_token(sl, i, resp) == verify_token(sl[i].hdr.token, resp)

\* The middleware going on to call_next although verify_token raised its
\* internal error.
verify_token_returned_or_500(v) == v.status \in {200, 500}

\* decoded_token = await verify_token(token) returned: no exception left it.
verify_token_returned(v) == v.status = 200

\* The key-set answer arrives: verify_token runs to its end, the middleware
\* stores the claims in request.state and awaits call_next, or answers.
conc_get_public_key(i) ==
    /\ slots[i].pc = "fetching"
    /\ \E resp \in ConcJwks :
          LET sl == slots[i]
              v == conc_verify_token(slots, i, resp)
              a2a == StartsWithA2A(sl.path)
              x == render([AsRequest(sl) EXCEPT !.status = v.status,
                              !.www = a2a, !.raised = ~a2a], sl.handled)
          IN  slots' = [slots EXCEPT ![i] =
                 IF verify_token_returned(v)
                 THEN [sl EXCEPT !.pc = "call_next", !.jwks = resp,
                                 !.vout = v.status, !.user_token = v.claims]
                 ELSE [sl EXCEPT !.pc = "done", !.jwks = resp,
                                 !.vout = v.status, !.status = x.status,
                                 !.www = x.www, !.body = "error"]]
    /\ UNCHANGED <<req, config, tax_data, app_vars, exec_vars>>

\* The route handler reading the claims of another request.
handler_user_token_shared(sl, i) ==
    IF sl[Other(i)].user_token # NoToken
    THEN sl[Other(i)].user_token
    ELSE sl[i].user_token

\* decoded_token = request.state.user_token in the route handler.
handler_user_token(sl, i) == sl[i].user_token

\* call_next: the route handler runs and its response is returned.
conc_call_next(i) ==
    /\ slots[i].pc = "call_next"
    /\ LET sl == slots[i]
           seen == handler_user_token(slots, i)
           h == IF sl.path \in OpenPaths THEN [status |-> 200, body |-> "public"]
                ELSE IF StartsWithA2A(sl.path) THEN a2a_route(sl.path)
                ELSE api_calculate(seen)
       IN  /\ slots' = [slots EXCEPT ![i] =
                 [sl EXCEPT !.pc = "done", !.ran = TRUE, !.status = h.status,
                            !.body = h.body,
                            !.seen = IF h.body \in {"tax_result", "a2a", "error"}
                                     THEN seen ELSE NoToken]]
           /\ tax_data' = IF h.body \in {"tax_result", "a2a"}
                          THEN TaxCalculator_calculate_tax(tax_data, seen).tax_data
                          ELSE tax_data
    /\ UNCHANGED <<req, config, app_vars, exec_vars>>

\* The response has been sent; the request object is gone.
conc_respond(i) ==
    /\ slots[i].pc = "done"
    /\ slots' = [slots EXCEPT ![i] = IdleSlot]
    /\ UNCHANGED <<req, config, tax_data, app_vars, exec_vars>>

ConcNext ==
    \E i \in Slots :
        \/ conc_receive(i)
        \/ conc_auth_middleware(i)
        \/ conc_get_public_key(i)
        \/ conc_call_next(i)
        \/ conc_respond(i)

ConcSpec == Init /\ [][ConcNext]_vars

\* --------------------------------------------------------------- user_app
\* Several requests are in flight.  A handler runs without interruption
\* between two awaits; get_current_user is suspended in client.post of its
\* refresh request, every other handler touches the store in one piece.
TokenAnswers ==
    {[NoAnswer EXCEPT !.kind = "network"]}
        \cup {[NoAnswer EXCEPT !.kind = "http", !.status = 400]}
        \cup {[kind |-> "http", status |-> 200, access_token |-> n,
               refresh_token |-> n, expires_in |-> 1, jwt |-> TRUE] :
                 n \in 1..MaxTokens}
        \cup {[kind |-> "http", status |-> 200, access_token |-> f[1],
               refresh_token |-> f[2], expires_in |-> f[3], jwt |-> f[1] # NoValue] :
                 f \in {<<NoValue, 1, 1>>, <<1, NoValue, 1>>, <<1, 1, NoValue>>}}
        \cup {[kind |-> "http", status |-> 200, access_token |-> 1,
               refresh_token |-> 1, expires_in |-> 1, jwt |-> FALSE]}

\* Values of the session_id cookie a request can carry.
Cookies == {NoCookie, UnknownCookie} \cup (1..issued)

Known(ss, sid) == sid # NoCookie /\ sid \in DOMAIN ss

\* del sessions[session_id]
Delete(ss, sid) == [i \in DOMAIN ss \ {sid} |-> ss[i]]

\* sessions[session_id] = session
Store(ss, sid, session) ==
    [i \in DOMAIN ss \cup {sid} |-> IF i = sid THEN session ELSE ss[i]]

\* datetime.now() > session["expires_at"]
Expired(session, now) == now > session.expires_at

Arrive(c, op, sid) ==
    [IdleCall EXCEPT !.pc = "received", !.op = op, !.sid = sid]

\* The route of get_user around get_current_user: None is answered 401, an
\* exception leaving get_current_user is not caught.
get_user_response(call, user, exc) ==
    IF exc # "none"
    THEN [call EXCEPT !.pc = "done", !.status = 500, !.body = "error", !.exc = exc]
    ELSE IF user = Absent
    THEN [call EXCEPT !.pc = "done", !.status = 401, !.body = "error"]
    ELSE [call EXCEPT !.pc = "done", !.status = 200, !.body = user]

\* GET /api/user up to the await of the refresh request.
get_user(c) ==
    /\ calls[c].pc = "idle"
    /\ \E sid \in Cookies :
          LET call == Arrive(c, "get_user", sid) IN
          calls' = [calls EXCEPT ![c] =
             IF ~Known(sessions, sid)
             THEN get_user_response(call, Absent, "none")
             ELSE IF Expired(sessions[sid], clock)
             THEN [call EXCEPT !.pc = "refreshing",
                               !.user = sessions[sid].user_info]
             ELSE get_user_response(call, sessions[sid].user_info, "none")]
    /\ UNCHANGED <<sessions, clock, issued, pipeline_vars, exec_vars>>

\* The refresh request was answered 200 and the answer has every key the
\* handler reads.
RefreshSucceeds(ans) ==
    /\ ans.kind = "http" /\ ans.status = 200
    /\ ans.access_token # NoValue
    /\ ans.refresh_token # NoValue
    /\ ans.expires_in # NoValue

\* The session object after the three assignments of a successful refresh.
Refreshed(session, ans, now) ==
    [session EXCEPT !.access_token = ans.access_token,
                    !.refresh_token = ans.refresh_token,
                    !.expires_at = now + ans.expires_in]

\* The store after get_current_user resumed with the answer ans, and the
\* exception it leaves with: the writes go to the session object the call
\* holds, which is the stored one as long as the id is in the store;
\* `del sessions[session_id]` raises KeyError when the id is gone.
sessions_after_refresh(ss, sid, ans, now) ==
    IF RefreshSucceeds(ans)
    THEN [ss |-> IF sid \in DOMAIN ss
                 THEN Store(ss, sid, Refreshed(ss[sid], ans, now)) ELSE ss,
          exc |-> "none"]
    ELSE IF sid \in DOMAIN ss
    THEN [ss |-> Delete(ss, sid), exc |-> "none"]
    ELSE [ss |-> ss, exc |-> "KeyError"]

\* get_current_user resumes with the answer to its refresh request.
get_current_user_resume(c) ==
    /\ calls[c].pc = "refreshing"
    /\ \E ans \in TokenAnswers :
          LET call == [calls[c] EXCEPT !.answer = ans]
              a == sessions_after_refresh(sessions, call.sid, ans, clock)
          IN  /\ sessions' = a.ss
              /\ calls' = [calls EXCEPT ![c] =
                    get_user_response(call,
                        IF RefreshSucceeds(ans) THEN call.user ELSE Absent,
                        a.exc)]
    /\ UNCHANGED <<clock, issued, pipeline_vars, exec_vars>>

\* GET /api/token
get_token_response(ss, sid, now) ==
    IF ~Known(ss, sid)
    THEN [status |-> 401, body |-> "error", access_token |-> NoValue]
    ELSE [status |-> 200, body |-> "access_token",
          access_token |-> ss[sid].access_token]

\* GET /api/delegation-info and POST /api/financial-planning (with a valid
\* FinancialData body).
gated_response(ss, sid, body) ==
    IF ~Known(ss, sid)
    THEN [status |-> 401, body |-> "error", access_token |-> NoValue]
    ELSE [status |-> 200, body |-> body, access_token |-> NoValue]

Answered(call, r) ==
    [call EXCEPT !.pc = "done", !.status = r.status, !.body = r.body,
                 !.access_token = r.access_token]

get_token(c) ==
    /\ calls[c].pc = "idle"
    /\ \E sid \in Cookies :
          calls' = [calls EXCEPT ![c] =
             Answered(Arrive(c, "get_token", sid),
                      get_token_response(sessions, sid, clock))]
    /\ UNCHANGED <<sessions, clock, issued, pipeline_vars, exec_vars>>

get_delegation_info(c) ==
    /\ calls[c].pc = "idle"
    /\ \E sid \in Cookies :
          calls' = [calls EXCEPT ![c] =
             Answered(Arrive(c, "get_delegation_info", sid),
                      gated_response(sessions, sid, "delegation_chain"))]
    /\ UNCHANGED <<sessions, clock, issued, pipeline_vars, exec_vars>>

create_financial_plan(c) ==
    /\ calls[c].pc = "idle"
    /\ \E sid \in Cookies :
          calls' = [calls EXCEPT ![c] =
             Answered(Arrive(c, "create_financial_plan", sid),
                      gated_response(sessions, sid, "plan"))]
    /\ UNCHANGED <<sessions, clock, issued, pipeline_vars, exec_vars>>

\* logout leaving the store as it is and only dropping the cookie.
logout_sessions_cookie_only(ss, sid) == ss

\* if session_id in sessions: del sessions[session_id]
logout_sessions(ss, sid) ==
    IF sid \in DOMAIN ss THEN Delete(ss, sid) ELSE ss

\* POST /api/logout
logout(c) ==
    /\ calls[c].pc = "idle"
    /\ \E sid \in Cookies :
          /\ sessions' = logout_sessions(sessions, sid)
          /\ calls' = [calls EXCEPT ![c] =
                [Arrive(c, "logout", sid) EXCEPT
                    !.pc = "done", !.status = 200, !.body = "success"]]
    /\ UNCHANGED <<clock, issued, pipeline_vars, exec_vars>>

\* What a GET /callback carries and what the provider answers to it.
CallbackInputs ==
    [error : BOOLEAN, code : BOOLEAN, token : TokenAnswers, userinfo : BOOLEAN]

NoSession ==
    [user_info |-> Absent, access_token |-> NoValue, refresh_token |-> NoValue,
     expires_at |-> 0]

\* callback creating the session as soon as it holds the tokens.
callback_outcome_before_userinfo(inp, now) ==
    IF inp.error \/ ~inp.code THEN [status |-> 400, session |-> NoSession]
    ELSE IF inp.token.kind # "http" \/ inp.token.status # 200
    THEN [status |-> 400, session |-> NoSession]
    ELSE IF inp.token.access_token = NoValue \/ ~inp.token.jwt
    THEN [status |-> 400, session |-> NoSession]
    ELSE IF inp.token.refresh_token = NoValue \/ inp.token.expires_in = NoValue
    THEN [status |-> 500, session |-> NoSession]
    ELSE [status |-> IF inp.userinfo THEN 303 ELSE 400,
          session |-> [user_info |-> IF inp.userinfo THEN "alice" ELSE Absent,
                       access_token |-> inp.token.access_token,
                       refresh_token |-> inp.token.refresh_token,
                       expires_at |-> now + inp.token.expires_in]]

\* callback: its status and the session it stores (NoSession: none).  The
\* error parameter, a missing code, a failed code exchange, an access token
\* without readable claims and a failed userinfo request are answered 400;
\* a token answer without refresh_token or expires_in raises KeyError where
\* the session dictionary is built.
callback_outcome(inp, now) ==
    IF inp.error \/ ~inp.code THEN [status |-> 400, session |-> NoSession]
    ELSE IF inp.token.kind # "http" \/ inp.token.status # 200
    THEN [status |-> 400, session |-> NoSession]
    ELSE IF inp.token.access_token = NoValue \/ ~inp.token.jwt
    THEN [status |-> 400, session |-> NoSession]
    ELSE IF ~inp.userinfo THEN [status |-> 400, session |-> NoSession]
    ELSE IF inp.token.refresh_token = NoValue \/ inp.token.expires_in = NoValue
    THEN [status |-> 500, session |-> NoSession]
    ELSE [status |-> 303,
          session |-> [user_info |-> "alice",
                       access_token |-> inp.token.access_token,
                       refresh_token |-> inp.token.refresh_token,
                       expires_at |-> now + inp.token.expires_in]]

\* GET /callback.  The new id comes from os.urandom(16): an id the
\* application has not generated before.
callback(c) ==
    /\ calls[c].pc = "idle"
    /\ issued < MaxSessions
    /\ \E inp \in CallbackInputs :
          LET o == callback_outcome(inp, clock)
              session_id == issued + 1
              call == [Arrive(c, "callback", NoCookie) EXCEPT !.answer = inp.token]
          IN  IF o.session # NoSession
              THEN /\ sessions' = Store(sessions, session_id, o.session)
                   /\ issued' = session_id
                   /\ calls' = [calls EXCEPT ![c] =
                         [call EXCEPT !.pc = "done", !.status = o.status,
                                      !.sid = session_id, !.body = "redirect"]]
              ELSE /\ calls' = [calls EXCEPT ![c] =
                         [call EXCEPT !.pc = "done", !.status = o.status,
                                      !.body = "error",
                                      !.exc = IF o.status = 500 THEN "KeyError"
                                              ELSE "none"]]
                   /\ UNCHANGED <<sessions, issued>>
    /\ UNCHANGED <<clock, pipeline_vars, exec_vars>>

\* The response has been sent.
app_respond(c) ==
    /\ calls[c].pc = "done"
    /\ calls' = [calls EXCEPT ![c] = IdleCall]
    /\ UNCHANGED <<sessions, clock, issued, pipeline_vars, exec_vars>>

\* Time passes.
app_tick ==
    /\ clock < MaxClock
    /\ clock' = clock + 1
    /\ UNCHANGED <<sessions, calls, issued, pipeline_vars, exec_vars>>

AppNext ==
    \/ app_tick
    \/ \E c \in Calls :
          \/ get_user(c)
          \/ get_current_user_resume(c)
          \/ get_token(c)
          \/ get_delegation_info(c)
          \/ create_financial_plan(c)
          \/ logout(c)
          \/ callback(c)
          \/ app_respond(c)

AppSpec == Init /\ [][AppNext]_vars

\* --------------------------------------------- TaxCalculatorAgentExecutor
\* What context.get_user_input() gives: a text with one of the keywords the
\* executor looks for, a text with none of them, or nothing it can lower().
NoInput == "None"
UserInputs ==
    {"structured", "rate", "bracket", "deduction", "credit", "summary", NoInput}

\* request.state.user_token as the executor finds it.
TokenContexts ==
    {NoToken,
     [form |-> "jwt", kid |-> "k1", signer |-> "k1", iss |-> ExpectedIssuer,
      aud |-> Calculator, exp |-> Now + 1, hasScope |-> TRUE,
      scope |-> TAX_CALCULATE, jti |-> 0]}

AgentMessage(text) == [role |-> "agent", text |-> text]

\* response_text for the user input, from calculation_result.
response_text(user_input, calculation_result) ==
    LET tr == calculation_result.tax_result IN
    IF user_input = "structured"
    THEN <<"json", tr.federal_tax_rate, tr.state_tax_rate, tr.effective_tax_rate,
           tr.standard_deduction, tr.child_tax_credit>>
    ELSE IF user_input = "rate"
    THEN <<"Current Tax Rates", tr.federal_tax_rate, tr.state_tax_rate,
           tr.effective_tax_rate>>
    ELSE IF user_input = "bracket" THEN <<"Current Tax Brackets">>
    ELSE IF user_input = "deduction"
    THEN <<"Available Deductions", tr.standard_deduction>>
    ELSE IF user_input = "credit"
    THEN <<"Available Tax Credits", tr.child_tax_credit>>
    ELSE <<calculation_result.message, tr.federal_tax_rate, tr.state_tax_rate,
           tr.effective_tax_rate, tr.standard_deduction, tr.child_tax_credit>>

\* execute without its try block: an exception raised while the answer is
\* built leaves execute.
execute_build_unguarded(user_input, token_context, td) ==
    IF user_input = NoInput
    THEN [message |-> NoMessage, exc |-> "AttributeError"]
    ELSE [message |-> AgentMessage(response_text(user_input,
                         TaxCalculator_calculate_tax(td, token_context).result)),
          exc |-> "none"]

\* execute up to its enqueue_event: the message it is about to enqueue and
\* the exception that leaves it.  An exception raised while the answer is
\* built is caught and the error message is enqueued instead.
execute_build(user_input, token_context, td) ==
    IF user_input = NoInput
    THEN [message |-> AgentMessage(<<"Sorry, I encountered an error">>),
          exc |-> "none"]
    ELSE [message |-> AgentMessage(response_text(user_input,
                         TaxCalculator_calculate_tax(td, token_context).result)),
          exc |-> "none"]

execute ==
    /\ exec.pc = "idle"
    /\ Len(event_queue) < MaxQueue
    /\ \E user_input \in UserInputs, token_context \in TokenContexts :
          LET b == execute_build(user_input, token_context, tax_data) IN
          exec' = [exec EXCEPT
                     !.pc = IF b.exc = "none" THEN "enqueue" ELSE "returned",
                     !.user_input = user_input,
                     !.token_context = token_context,
                     !.message = b.message, !.exc = b.exc]
    /\ UNCHANGED <<event_queue, pipeline_vars, app_vars>>

\* await event_queue.enqueue_event(Message(...)) completes.
execute_enqueue ==
    /\ exec.pc = "enqueue"
    /\ event_queue' = Append(event_queue, exec.message)
    /\ exec' = [exec EXCEPT !.pc = "returned", !.enqueued = @ + 1]
    /\ UNCHANGED <<pipeline_vars, app_vars>>

\* execute has returned to its caller.
execute_return ==
    /\ exec.pc = "returned"
    /\ exec' = IdleExec
    /\ UNCHANGED <<event_queue, pipeline_vars, app_vars>>

\* cancel(task_id): logs and returns True.
cancel ==
    /\ exec' = [exec EXCEPT !.cancelled = "True"]
    /\ UNCHANGED <<event_queue, pipeline_vars, app_vars>>

\* The request handler takes the message from the queue.
dequeue_event ==
    /\ exec.pc = "idle"
    /\ event_queue # <<>>
    /\ event_queue' = Tail(event_queue)
    /\ UNCHANGED <<exec, pipeline_vars, app_vars>>

ExecNext ==
    \/ execute
    \/ execute_enqueue
    \/ execute_return
    \/ cancel
    \/ dequeue_event

ExecSpec == Init /\ [][ExecNext]_vars

\* ======================================================= properties
NextHop(s) == IF s = Planner THEN Optimizer ELSE Calculator
Exchangers == {Planner, Optimizer}
Verified(s) == req[s].nFetch > 0
Inbound(s) == req[s].hdr.token

\* The key a service's verifier checks the signature with.
UsedKey(s) ==
    IF s = TaxApi
    THEN LET idx == {i \in 1..Len(req[s].jwks.keys) :
                        req[s].jwks.keys[i].kid = Inbound(s).kid}
         IN  IF idx = {} THEN NoKey ELSE req[s].jwks.keys[Min(idx)]
    ELSE get_public_key(req[s].jwks).key

SignatureVerifies(s) ==
    /\ Verified(s)
    /\ req[s].jwks.ok
    /\ Parses(Inbound(s))
    /\ UsedKey(s) # NoKey
    /\ Inbound(s).signer = UsedKey(s).kid

IssAudExpOk(s) ==
    /\ Inbound(s).iss = ExpectedIssuer
    /\ Inbound(s).aud = CLIENT_ID(s)
    /\ Inbound(s).exp > Now

RequiredScope(s) == IF s = Optimizer THEN TAX_PROCESS ELSE TAX_CALCULATE

\* C1: a token that passes signature, issuer, audience and expiry but whose
\* scope claim is absent or lacks the hop's required scope ends verification
\* with 403, at the calculator and at the optimizer.
C1_MissingScopeIsForbidden ==
    \A s \in {Calculator, Optimizer} :
        ( /\ SignatureVerifies(s)
          /\ IssAudExpOk(s)
          /\ ~Inbound(s).hasScope \/ ~Contains(RequiredScope(s), Inbound(s).scope) )
        => req[s].vout = 403

\* C2: a hop that calls a further hop sends an exchange request, and calls
\* downstream, only for an inbound token its verifier has authorized; the
\* subject_token is that verified token.
C2_ExchangeOnlyAfterVerification ==
    \A s \in Exchangers :
        (req[s].nExch > 0 \/ req[s].nCall > 0)
        => /\ req[s].vout = 200
           /\ req[s].xreq.subject_token = req[s].claims

\* The verifier rejected the token as an invalid credential: verify_token
\* left with 401, KeycloakClient.validate_token with its invalid-token error.
Unauthenticated(s) ==
    IF s = TaxApi
    THEN req[s].verr = "ValueError: Invalid token"
    ELSE req[s].verr = "JWTError" /\ req[s].vout = 401

C4_DownstreamBearerIsExchanged ==
    \A s \in Exchangers :
        /\ req[s].nCall > 0 =>
              /\ req[s].xres.status = 200 /\ req[s].xres.hasTok
              /\ req[s].sent = req[s].xres.token
              /\ req[s].sent # Inbound(s)
              /\ req[s].xreq.subject_token = Inbound(s)
              /\ req[s].xreq.audience = CLIENT_ID(NextHop(s))
        /\ req[NextHop(s)].from = s =>
              /\ req[s].nCall > 0
              /\ req[NextHop(s)].hdr = Bearer(req[s].xres.token)

C4_Witness ==
    /\ req[Calculator].from = Optimizer
    /\ req[Calculator].pc = "done"
    /\ req[Optimizer].from = Planner
    /\ req[Calculator].hdr.token.aud = "agent-calculator"

\* C5: the scope a hop requests in its exchange is a subset of the scope its
\* own inbound token was granted, and the requested audience is the client id
\* of the next hop.
C5_RequestedScopeWithinGranted ==
    \A s \in Exchangers :
        req[s].nExch > 0
        => /\ Inbound(s).hasScope
           /\ Words(req[s].xreq.scope) \subseteq Words(Inbound(s).scope)
           /\ req[s].xreq.audience = CLIENT_ID(NextHop(s))

ExchangeFailed(s) ==
    /\ req[s].nExch > 0
    /\ req[s].xres.kind = "network" \/ req[s].xres.status # 200

\* C6: when the provider rejects the exchange or cannot be reached, the hop
\* answers 500, calls no further hop and sends no token onward.
C6_ExchangeFailureIsFatal ==
    \A s \in Exchangers :
        ExchangeFailed(s)
        => /\ req[s].pc = "done"
           /\ req[s].status = 500
           /\ req[s].nCall = 0
           /\ req[s].sent = NoToken
           /\ req[NextHop(s)] = Idle

C6_Witness ==
    /\ req[Planner].xres.kind = "http"
    /\ req[Planner].xres.status = 400
    /\ req[Planner].xreq.audience = "agent-tax-optimizer"
    /\ req[Planner].xreq.scope = TAX_PROCESS
    /\ req[Planner].status = 500

\* C7: the signature is checked with the published key whose kid is the
\* token's kid, so a token signed by any published RS256 signature key, and
\* otherwise valid, is accepted.
C7_KeySelectedByKid ==
    \A s \in {Calculator, Optimizer} :
        ( /\ Verified(s) /\ req[s].jwks.ok /\ Parses(Inbound(s))
          /\ \E i \in 1..Len(req[s].jwks.keys) :
                /\ req[s].jwks.keys[i].kid = Inbound(s).kid
                /\ req[s].jwks.keys[i].kid = Inbound(s).signer
                /\ req[s].jwks.keys[i].use = "sig"
                /\ req[s].jwks.keys[i].alg = "RS256"
          /\ IssAudExpOk(s)
          /\ Inbound(s).hasScope
          /\ RequiredScope(s) \in Words(Inbound(s).scope) )
        => req[s].vout = 200

\* C8: a token whose kid is not in the resolved key set ends verification
\* unauthenticated: the service answers 401 and never authorizes it.
C8_UnknownKidIsUnauthenticated ==
    \A s \in {Calculator, TaxApi} :
        ( /\ Verified(s) /\ req[s].jwks.ok /\ Parses(Inbound(s))
          /\ Inbound(s).kid # Absent
          /\ \A i \in 1..Len(req[s].jwks.keys) :
                req[s].jwks.keys[i].kid # Inbound(s).kid )
        => /\ req[s].vout = 401
           /\ req[s].status = 401
           /\ ~req[s].ran

\* C9: a hop answers 401 when its verification ended unauthenticated and 403
\* when it ended forbidden, the optimizer included.
C9_VerificationOutcomeToStatus ==
    \A s \in {Optimizer, Calculator} :
        req[s].pc = "done"
        => /\ req[s].vout = 401 => req[s].status = 401
           /\ req[s].vout = 403 => req[s].status = 403

\* C10: one request causes at most one key-set fetch, at most one exchange
\* request and at most one downstream call, whatever their outcomes.
C10_NoRetries ==
    \A s \in Services :
        /\ req[s].nFetch <= 1
        /\ req[s].nExch <= 1
        /\ req[s].nCall <= 1

C10_Witness ==
    /\ req[Optimizer].pc = "done"
    /\ req[Optimizer].nFetch = 1
    /\ ExchangeFailed(Optimizer)
    /\ req[Optimizer].nExch = 1

ExchangeSucceeded(s) ==
    /\ req[s].nExch > 0
    /\ req[s].xres.kind = "http"
    /\ req[s].xres.status = 200
    /\ req[s].xres.hasTok

\* C11: a failure at any hop aborts the chain: the planner answers 200 only
\* if its exchange succeeded and the optimizer answered 200, and the
\* optimizer answers 200 only if its verification and its exchange succeeded
\* and the calculator verified the token and answered 200.
C11_FailureAbortsChain ==
    /\ req[Planner].status = 200 =>
          /\ ExchangeSucceeded(Planner)
          /\ req[Optimizer].from = Planner
          /\ req[Optimizer].status = 200
    /\ req[Optimizer].status = 200 =>
          /\ req[Optimizer].vout = 200
          /\ ExchangeSucceeded(Optimizer)
          /\ req[Calculator].from = Optimizer
          /\ req[Calculator].vout = 200
          /\ req[Calculator].status = 200

C11_Witness ==
    /\ req[Planner].pc = "done"
    /\ req[Optimizer].from = Planner
    /\ req[Calculator].from = Optimizer
    /\ req[Calculator].status = 401
    /\ req[Optimizer].status = 500
    /\ req[Planner].status = 500

\* C12: when the next hop answered with an error status, the calling hop
\* answers with that same status, or with 502.
C12_DownstreamStatusSurfaced ==
    \A s \in Exchangers :
        (req[s].pc = "done" /\ IsErrorStatus(req[s].dstatus))
        => req[s].status \in {req[s].dstatus, 502}

\* C13: the token a hop forwards after a successful exchange has a scope
\* claim within the scope requested in the exchange and within the scope of
\* the subject token.
C13_ExchangeNarrowsScope ==
    \A s \in Exchangers :
        req[s].nCall > 0
        => /\ Words(req[s].sent.scope) \subseteq Words(req[s].xreq.scope)
           /\ Words(req[s].sent.scope)
                 \subseteq Words(req[s].xreq.subject_token.scope)

\* C14: no response body of any hop, success or error, contains a complete
\* bearer token or a client secret.
C14_NoTokenInResponse ==
    \A s \in Services :
        /\ req[s].btokens = {}
        /\ req[s].bsecrets = {}

\* C15: every exchange request a response body reports has the audience and
\* the scope of the exchange request the reported hop actually sent.
C15_ReportedExchangeIsFaithful ==
    \A s \in Exchangers :
        \A m \in req[s].meta :
            /\ m.audience = req[m.hop].xreq.audience
            /\ m.scope = req[m.hop].xreq.scope

\* C16: every 401 the calculator answers, on REST and on A2A paths, carries
\* a WWW-Authenticate header.
C16_ChallengeOnEvery401 ==
    req[Calculator].status = 401 => req[Calculator].www

C18_PublicPathsOnly ==
    LET r == req[Calculator] IN
    r.pc = "done"
    => IF r.path \in OpenPaths \cup {AgentCardPath}
       THEN r.nFetch = 0 /\ r.vout = 0 /\ r.ran /\ r.status = 200
       ELSE r.ran => (r.vout = 200 /\ r.claims = r.hdr.token)

C18_Witness ==
    /\ req[Calculator].pc = "done"
    /\ req[Calculator].path = AgentCardPath
    /\ req[Calculator].hdr.present
    /\ req[Calculator].hdr.scheme = "Bearer"
    /\ ~Parses(req[Calculator].hdr.token)
    /\ req[Calculator].status = 200
    /\ req[Calculator].body = "agent_card"

\* C19: a token whose signature verifies, with the expected issuer, the
\* calculator's client id as audience, not expired and carrying the scope
\* tax:calculate, is answered 200 with the tax result on the REST endpoint
\* and with the agent's answer on the A2A endpoint.
C19_ValidTokenIsServed ==
    LET r == req[Calculator] IN
    ( /\ SignatureVerifies(Calculator)
      /\ IssAudExpOk(Calculator)
      /\ r.hdr.token.hasScope
      /\ TAX_CALCULATE \in Words(r.hdr.token.scope) )
    => /\ r.status = 200
       /\ r.ran
       /\ ~r.raised
       /\ r.body = IF StartsWithA2A(r.path) THEN "a2a" ELSE "tax_result"

C19_Witness ==
    /\ SignatureVerifies(Calculator)
    /\ IssAudExpOk(Calculator)
    /\ req[Calculator].hdr.token.scope = TAX_CALCULATE
    /\ req[Calculator].path = "/api/calculate"
    /\ req[Calculator].status = 200
    /\ req[Calculator].body = "tax_result"

\* C20: an otherwise valid token whose scope is the empty string is answered
\* 403 with a detail naming the missing scope tax:calculate.
C20_EmptyScopeIsForbidden ==
    LET r == req[Calculator] IN
    ( /\ SignatureVerifies(Calculator)
      /\ IssAudExpOk(Calculator)
      /\ r.hdr.token.hasScope
      /\ r.hdr.token.scope = <<>> )
    => /\ r.status = 403
       /\ r.detail = "Token does not have required scope: tax:calculate"

ConcVerified(i) == slots[i].vout # 0

C22_RequestStateIsLocal ==
    \A i \in Slots :
        slots[i].pc = "done"
        => LET a == Alone(slots[i]) IN
           /\ slots[i].status = a.status
           /\ slots[i].www = a.www
           /\ slots[i].body = a.body
           /\ slots[i].ran = a.ran
           /\ slots[i].user_token = a.claims
           /\ slots[i].seen \in {NoToken, slots[i].hdr.token}
           /\ slots[i].body \in {"tax_result", "a2a"}
                 => slots[i].seen = slots[i].hdr.token

C22_Witness ==
    /\ slots[1].pc = "done"
    /\ slots[1].body = "tax_result"
    /\ slots[1].seen = slots[1].hdr.token
    /\ slots[2].pc = "call_next"
    /\ slots[2].user_token # NoToken
    /\ slots[2].user_token # slots[1].user_token

\* The fetched key set has a key get_public_key can use.
HasSigningKey(s) ==
    /\ req[s].jwks.ok
    /\ \E i \in 1..Len(req[s].jwks.keys) :
          req[s].jwks.keys[i].use = "sig" /\ req[s].jwks.keys[i].alg = "RS256"

\* C23: when the key set cannot be fetched, or holds no key with use=sig and
\* alg=RS256, verification ends with an error answered 500: the token is not
\* accepted and the handler does not run.
C23_KeySetFailureIs500 ==
    /\ \A s \in {Calculator, Optimizer} :
          (Verified(s) /\ ~HasSigningKey(s))
          => /\ req[s].vout = 500
             /\ req[s].status = 500
             /\ req[s].claims = NoToken
             /\ ~req[s].ran
             /\ req[s].nExch = 0
    /\ (Verified(TaxApi) /\ ~req[TaxApi].jwks.ok)
          => /\ req[TaxApi].status = 500
             /\ req[TaxApi].claims = NoToken
             /\ ~req[TaxApi].ran

C23_Witness ==
    /\ Verified(Calculator)
    /\ req[Calculator].jwks.ok
    /\ Len(req[Calculator].jwks.keys) = 1
    /\ req[Calculator].jwks.keys[1].use = "enc"
    /\ Inbound(Calculator).signer = "k1"
    /\ Inbound(Calculator).scope = TAX_CALCULATE
    /\ req[Calculator].status = 500

\* The request has passed the point where the hop decides on the token.
Decided(s) == req[s].pc \in {"calling", "done"}
Protected(s) ==
    s # Calculator \/ req[s].path \notin OpenPaths \cup {AgentCardPath}

\* C24: a token whose exp is in the past, or whose iss is not the
\* expected issuer, is answered 401 at every hop and is never accepted,
\* exchanged or served; a hop that fetches the key set is looked at when the
\* key set publishes a signing key, and the calculator by the status its
\* verification raises.
C24_ExpiredOrForeignIsUnauthenticated ==
    \A s \in {Planner, Optimizer, Calculator} :
        ( /\ Decided(s) /\ Protected(s)
          /\ req[s].hdr.present /\ req[s].hdr.scheme = "Bearer"
          /\ Parses(Inbound(s))
          /\ s \in {Optimizer, Calculator} => HasSigningKey(s)
          /\ Inbound(s).exp < Now \/ Inbound(s).iss # ExpectedIssuer )
        => /\ req[s].pc = "done"
           /\ (req[s].status = 401 \/ (s = Calculator /\ req[s].vout = 401))
           /\ req[s].vout # 200
           /\ req[s].nExch = 0
           /\ ~req[s].ran

\* C25: a token that does not parse is not fatal before the cryptographic
\* check: with a signing key resolved, verification ends 401, at the
\* optimizer as at the calculator.
C25_GarbledIsUnauthenticated ==
    \A s \in {Calculator, Optimizer} :
        ( /\ Verified(s) /\ HasSigningKey(s)
          /\ ~Parses(Inbound(s)) )
        => /\ req[s].vout = 401
           /\ req[s].verr = "JWTError"

\* The checks jwt.decode makes on the token of s with the key s selected.
DecodeOk(s) ==
    /\ SignatureVerifies(s)
    /\ Inbound(s).exp >= Now
    /\ Inbound(s).aud \in {Absent, CLIENT_ID(s)}
    /\ Inbound(s).iss = ExpectedIssuer

\* C26: key resolution precedes the signature check and the signature,
\* expiry, audience and issuer checks precede the scope check: the scope
\* check fails only on a token that passed them, a token failing them is
\* reported unauthenticated whatever its scope, and a key-set failure is
\* reported before either.
C26_CheckOrder ==
    \A s \in {Calculator, Optimizer} :
        Verified(s)
        => /\ req[s].verr = "HTTPException" => DecodeOk(s)
           /\ (HasSigningKey(s) /\ Parses(Inbound(s)) /\ ~DecodeOk(s))
                 => req[s].vout = 401 /\ req[s].verr = "JWTError"
           /\ ~HasSigningKey(s)
                 => req[s].verr \notin {"JWTError", "HTTPException"}

C26_Witness ==
    /\ Verified(Optimizer)
    /\ HasSigningKey(Optimizer)
    /\ Parses(Inbound(Optimizer))
    /\ Inbound(Optimizer).signer = "kx"
    /\ Inbound(Optimizer).scope = <<"openid">>
    /\ req[Optimizer].vout = 401

\* C27: a token is accepted only if one of the space-delimited words of its
\* scope claim equals the required scope.
C27_ScopeIsSetMembership ==
    \A s \in {Calculator, Optimizer, TaxApi} :
        req[s].vout = 200
        => /\ Inbound(s).hasScope
           /\ RequiredScope(s) \in Words(Inbound(s).scope)

\* C28: every exchange request has the token-exchange grant type, the
\* inbound token of the request as subject_token, the hop's own client id
\* and secret, and the fixed audience and scope of the next hop.
C28_ExchangeRequestShape ==
    \A s \in Exchangers :
        req[s].nExch > 0
        => req[s].xreq =
              [grant_type |-> "urn:ietf:params:oauth:grant-type:token-exchange",
               subject_token |-> Inbound(s),
               audience |-> IF s = Planner THEN "agent-tax-optimizer"
                            ELSE "agent-calculator",
               scope |-> IF s = Planner THEN TAX_PROCESS ELSE TAX_CALCULATE,
               client_id |-> config[s].CLIENT_ID,
               client_secret |-> config[s].CLIENT_SECRET]

C28_Witness ==
    /\ req[Planner].nExch > 0
    /\ Inbound(Planner).scope = <<"openid">>
    /\ req[Planner].xreq.scope = TAX_PROCESS
    /\ req[Optimizer].nExch > 0
    /\ req[Optimizer].xreq.scope = TAX_CALCULATE

C30_ConfigurationIsFrozen ==
    [][config' = config /\ tax_data' = tax_data]_vars

C30_Witness ==
    /\ req[Calculator].ran
    /\ req[Calculator].body = "tax_result"
    /\ req[Calculator].from = Optimizer
    /\ tax_data = TaxData
    /\ config = Configuration

\* The request of slot i is for a route behind the token check.
ConcProtected(i) ==
    slots[i].path \notin OpenPaths \cup {AgentCardPath}

\* C31: at the calculator a protected route handler is reached only after
\* verify_token returned for the token of that request, and the user_token
\* the handler reads is the claim set verify_token returned for it; a
\* request whose verification did not return has no user_token.
C31_HandlerAfterVerification ==
    \A i \in Slots :
        LET v == verify_token(slots[i].hdr.token, slots[i].jwks) IN
        /\ (ConcProtected(i) /\ (slots[i].pc = "call_next" \/ slots[i].ran))
              => /\ slots[i].vout = 200
                 /\ v.status = 200
                 /\ slots[i].user_token = v.claims
                 /\ slots[i].user_token # NoToken
        /\ (ConcProtected(i) /\ slots[i].ran)
              => slots[i].seen = v.claims
        /\ slots[i].user_token # NoToken
              => slots[i].vout = 200 /\ v.status = 200

C31_Witness ==
    /\ slots[1].pc = "done"
    /\ slots[1].ran
    /\ slots[1].path = "/a2a/"
    /\ slots[1].seen = slots[1].hdr.token
    /\ slots[2].pc = "done"
    /\ slots[2].path = "/api/calculate"
    /\ slots[2].hdr.token.scope = <<>>
    /\ slots[2].hdr.token.form = "jwt"
    /\ slots[2].jwks.ok
    /\ ~slots[2].ran

\* The exception the exchange function of s leaves with for the answer the
\* provider gave to the request of s.
ExchangeRaised(s) ==
    IF s = Planner THEN exchange_token(req[s].xres)
    ELSE exchange_token_for_calculator(req[s].xres)

\* C32: the exchange functions return only for a provider answer with
\* status 200; for any other status and for a network error they raise an
\* error of status 500, the hop answers 500 and calls no further hop.
C32_ExchangeReturnsOnlyOn200 ==
    \A s \in Exchangers :
        req[s].nExch > 0
        => /\ ExchangeRaised(s) = NoExc
                 <=> (req[s].xres.kind = "http" /\ req[s].xres.status = 200)
           /\ ExchangeRaised(s) # NoExc
                 => /\ ExchangeRaised(s) = HTTPException(500)
                    /\ req[s].pc = "done"
                    /\ req[s].status = 500
                    /\ req[s].nCall = 0
                    /\ req[s].sent = NoToken
           /\ req[s].nCall > 0 => ExchangeRaised(s) = NoExc

C32_Witness ==
    /\ req[Planner].nExch > 0
    /\ req[Planner].xres.kind = "http"
    /\ req[Planner].xres.status = 201
    /\ req[Planner].status = 500
    /\ req[Planner].pc = "done"

\* C33: every request a hop has received gets its response, the handler
\* issues each remote call at most once and none after a failed step, and a
\* request that has its response is not worked on again.
C33_RequestsTerminate ==
    /\ \A s \in Services :
          (req[s].pc \in {"received", "calling"}) ~> (req[s].pc = "done")
    /\ [](\A s \in Services :
            /\ req[s].nFetch <= 1 /\ req[s].nExch <= 1 /\ req[s].nCall <= 1
            /\ (req[s].nFetch > 0 /\ req[s].vout # 200)
                  => req[s].nExch = 0 /\ req[s].nCall = 0
            /\ (s \in Exchangers /\ ExchangeFailed(s)) => req[s].nCall = 0)
    /\ [][\A s \in Services :
            req[s].pc = "done" => (req'[s] = req[s] \/ req'[s] = Idle)]_vars

C33_Witness ==
    /\ req[Planner].pc = "done"
    /\ req[Planner].nCall = 1
    /\ req[Planner].dstatus = 500
    /\ req[Optimizer].pc = "done"
    /\ req[Optimizer].nCall = 1
    /\ req[Calculator].pc = "done"
    /\ req[Calculator].status = 500

\* Call c of user_app is handled up to its response in this step.
Handled(c) == calls[c].pc = "idle" /\ calls'[c].pc = "done"
\* get_current_user of call c resumes and ends in this step.
Resumed(c) == calls[c].pc = "refreshing" /\ calls'[c].pc = "done"

GatedOps == {"get_token", "get_delegation_info", "create_financial_plan"}

\* C34: get_current_user returns user info only for a session that has not
\* expired or whose refresh succeeded in this call, which then replaces
\* access_token, refresh_token and expires_at; when the refresh fails or
\* raises, the session is removed and None is returned (answered 401).
C34_ExpiredSessionNeedsRefresh ==
    [][\A c \in Calls :
         LET sid == calls'[c].sid IN
         /\ (Handled(c) /\ calls'[c].op = "get_user" /\ calls'[c].status = 200)
               => Known(sessions, sid) /\ ~Expired(sessions[sid], clock)
         /\ (Resumed(c) /\ RefreshSucceeds(calls'[c].answer))
               => /\ calls'[c].status = 200
                  /\ sid \in DOMAIN sessions
                        => sessions'[sid] =
                              Refreshed(sessions[sid], calls'[c].answer, clock)
         /\ (Resumed(c) /\ ~RefreshSucceeds(calls'[c].answer))
               => /\ calls'[c].status = 401
                  /\ calls'[c].exc = "none"
                  /\ sid \notin DOMAIN sessions']_vars

\* C35: whatever the interleaving of get_current_user and logout on one
\* session id, no call ends with an unhandled error from deleting a session
\* that is already gone, and a call whose refresh failed deletes no session
\* that is valid again.
C35_ConcurrentSessionHandling ==
    [][\A c \in Calls :
         LET sid == calls'[c].sid IN
         /\ Resumed(c) => calls'[c].exc = "none" /\ calls'[c].status # 500
         /\ (Resumed(c) /\ sid \in DOMAIN sessions /\ sid \notin DOMAIN sessions')
               => Expired(sessions[sid], clock)
         /\ (Handled(c) /\ calls'[c].op = "logout") => calls'[c].status = 200]_vars

\* C36: /api/token, /api/delegation-info and /api/financial-planning answer
\* 401 for a session whose expires_at has passed, and /api/token does not
\* return its access token.
C36_GatedEndpointsRefuseExpired ==
    [][\A c \in Calls :
         LET sid == calls'[c].sid IN
         ( /\ Handled(c) /\ calls'[c].op \in GatedOps
           /\ Known(sessions, sid) /\ Expired(sessions[sid], clock) )
         => calls'[c].status = 401 /\ calls'[c].access_token = NoValue]_vars

\* C37: logout answers success, removes the session id of the request from
\* the store and leaves every other session as it was; an id that is not in
\* the store does not come back, and every request that arrives with an id
\* that is not in the store is answered 401.
C37_LogoutEndsSession ==
    [][/\ \A c \in Calls :
            LET sid == calls'[c].sid IN
            /\ (Handled(c) /\ calls'[c].op = "logout")
                  => /\ calls'[c].status = 200
                     /\ sid \notin DOMAIN sessions'
                     /\ DOMAIN sessions' = DOMAIN sessions \ {sid}
                     /\ \A i \in DOMAIN sessions' : sessions'[i] = sessions[i]
            /\ ( /\ calls[c].pc = "idle" /\ calls'[c].pc # "idle"
                 /\ calls'[c].op \in GatedOps \cup {"get_user"}
                 /\ ~Known(sessions, sid) )
                  => calls'[c].pc = "done" /\ calls'[c].status = 401
       /\ \A i \in 1..issued :
            i \notin DOMAIN sessions => i \notin DOMAIN sessions']_vars

C37_Witness ==
    /\ issued = 1
    /\ 1 \notin DOMAIN sessions
    /\ calls[1].pc = "done"
    /\ calls[1].op = "logout"
    /\ calls[1].sid = 1
    /\ calls[2].pc = "done"
    /\ calls[2].op = "get_token"
    /\ calls[2].sid = 1
    /\ calls[2].status = 401

\* The token answer has what callback needs to build a session.
CompleteAnswer(ans) == RefreshSucceeds(ans) /\ ans.jwt

\* C38: a session enters the store only in a callback that is answered with
\* the redirect, after the code exchange and the userinfo request succeeded,
\* under an id not generated before; every stored session has user_info,
\* access_token, refresh_token and expires_at; a callback that fails leaves
\* the store as it was.
C38_SessionStoreInvariant ==
    /\ [](\A i \in DOMAIN sessions :
             /\ i \in 1..issued
             /\ sessions[i].user_info # Absent
             /\ sessions[i].access_token # NoValue
             /\ sessions[i].refresh_token # NoValue
             /\ sessions[i].expires_at > 0)
    /\ [][/\ ~(DOMAIN sessions' \subseteq DOMAIN sessions)
               => \E c \in Calls :
                     /\ Handled(c)
                     /\ calls'[c].op = "callback"
                     /\ calls'[c].status = 303
                     /\ CompleteAnswer(calls'[c].answer)
                     /\ calls'[c].sid \notin 1..issued
                     /\ DOMAIN sessions' = DOMAIN sessions \cup {calls'[c].sid}
                     /\ sessions'[calls'[c].sid].user_info # Absent
          /\ \A c \in Calls :
                (Handled(c) /\ calls'[c].op = "callback" /\ calls'[c].status # 303)
                => sessions' = sessions /\ issued' = issued]_vars

C38_Witness ==
    /\ DOMAIN sessions = {1, 2}
    /\ sessions[1].access_token # sessions[2].access_token
    /\ calls[1].pc = "done"
    /\ calls[1].op = "callback"
    /\ calls[1].status = 303
    /\ calls[1].sid = 2
    /\ calls[2].pc = "done"
    /\ calls[2].op = "callback"
    /\ calls[2].status = 500

\* C39: no exception raised while the answer is built leaves execute; a call
\* of execute that has returned has put exactly one agent message on the
\* queue, the answer or the error message; cancel returns True and changes
\* neither the queue, nor the running call, nor tax_data.
C39_ExecuteEnqueuesOneMessage ==
    /\ [](/\ exec.exc = "none"
          /\ exec.pc = "returned"
                => /\ exec.enqueued = 1
                   /\ exec.message.role = "agent"
                   /\ exec.message.text # <<>>
                   /\ event_queue # <<>>
                   /\ event_queue[Len(event_queue)] = exec.message
          /\ exec.pc \in {"idle", "enqueue"} => exec.enqueued = 0)
    /\ [][/\ (exec'.cancelled = "True" /\ exec.cancelled # "True")
               => /\ exec' = [exec EXCEPT !.cancelled = "True"]
                  /\ event_queue' = event_queue
                  /\ tax_data' = tax_data
          /\ Len(event_queue') > Len(event_queue)
               => /\ exec.pc = "enqueue" /\ exec'.pc = "returned"
                  /\ event_queue' = Append(event_queue, exec.message)]_vars

C39_Witness ==
    /\ exec.pc = "returned"
    /\ exec.user_input = NoInput
    /\ exec.cancelled = "True"
    /\ Len(event_queue) = 2
    /\ event_queue[1] # event_queue[2]
    /\ event_queue[2] = AgentMessage(<<"Sorry, I encountered an error">>)

====
